---- MODULE Spec2Model ----
(***************************************************************************)
(* Model of ctxzap: zap fields stored in a context.Context (WithFields,    *)
(* FieldsFromContext) and the merge of two field slices (MergeFields).     *)
(*                                                                         *)
(* Go slices are modelled as headers [arr, len] over backing arrays kept   *)
(* in `heap`, so that two slices sharing a backing array are visible as    *)
(* such.  Contexts are modelled as a parent-linked tree kept in `ctxs`.    *)
(***************************************************************************)
EXTENDS Integers, Sequences, FiniteSets, TLC

\* ------------------------------------------------------------------ bounds
\* Longest slice literal a caller builds in the store specification.
MaxLen == 2
\* Longest input slice drawn for the MergeFields specification.
MaxMergeLen == 2
\* Number of contexts derived from context.Background(), in Spec and in
\* ChainSpec.
MaxChain == 3
MaxCtx == 2
\* Number of backing arrays the caller holds a reference to.
MaxArrays == 1
\* LogSpec: the contexts the program derives and the records it logs.
MaxLogCtx == 1
MaxLog == 1
\* ConcSpec: the goroutines and the length of the field lists they pass.
NumProcs == 2
MaxConcLen == 1

\* The field keys and (type, payload) values the inputs are drawn from.
Keys == {"a", "b", "c"}
Vals == {1, 2}
\* Keys used by the store specifications, and the values a caller that
\* keeps slices uses (subsets, to keep them small).
StoreKeys == {"a", "b"}
StoreVals == {1}

\* ------------------------------------------------------------------ fields
\* zap.Field: Key plus (Type, Integer, String, Interface), abstracted as Val.
Field == [Key : Keys, Val : Vals]

\* zap.Field.Equals as MergeFields uses it: same key, same type and payload.
EqualsKeyOnly(f, g) == f.Key = g.Key
Equals(f, g) == f.Key = g.Key /\ f.Val = g.Val

\* All sequences over S of length at most n.
SeqsUpTo(S, n) == UNION {[1..k -> S] : k \in 0..n}

KeysOf(s) == {s[i].Key : i \in DOMAIN s}
UniqueKeys(s) == \A i, j \in DOMAIN s : s[i].Key = s[j].Key => i = j

\* ------------------------------------------------------------------ Go map
\* map[string]zap.Field as a function whose domain is the set of keys present.
EmptyMap == [k \in {} |-> k]
MapPut(m, k, v) == [x \in (DOMAIN m) \cup {k} |-> IF x = k THEN v ELSE m[x]]
MapDelete(m, k) == [x \in (DOMAIN m) \ {k} |-> m[x]]

\* for _, field := range s { fieldMap[field.Key] = field }
RECURSIVE FillMapKeepFirst(_, _)
FillMapKeepFirst(m, s) ==
  IF s = <<>> THEN m
  ELSE FillMapKeepFirst(IF Head(s).Key \in DOMAIN m THEN m
                        ELSE MapPut(m, Head(s).Key, Head(s)),
                        Tail(s))

RECURSIVE FillMap(_, _)
FillMap(m, s) ==
  IF s = <<>> THEN m
  ELSE FillMap(MapPut(m, Head(s).Key, Head(s)), Tail(s))

\* First output loop: the fields of existingFields whose map entry Equals them.
RECURSIVE AddExisting(_, _)
AddExisting(st, s) ==
  IF s = <<>> THEN st
  ELSE LET field == Head(s)
           keep  == /\ field.Key \in DOMAIN st.fieldMap
                    /\ Equals(st.fieldMap[field.Key], field)
       IN AddExisting(IF keep
                        THEN [result   |-> Append(st.result, field),
                              fieldMap |-> MapDelete(st.fieldMap, field.Key)]
                        ELSE st,
                      Tail(s))

\* Second output loop: the fields of newFields whose key is still in the map.
RECURSIVE AddNew(_, _)
AddNew(st, s) ==
  IF s = <<>> THEN st
  ELSE LET field == Head(s)
       IN AddNew(IF field.Key \in DOMAIN st.fieldMap
                   THEN [result   |-> Append(st.result, field),
                         fieldMap |-> MapDelete(st.fieldMap, field.Key)]
                   ELSE st,
                 Tail(s))

\* The slow path of MergeFields (both inputs non-empty), on slice contents.
MergeLoops(existingFields, newFields) ==
  LET fieldMap == FillMap(FillMap(EmptyMap, existingFields), newFields)
      first    == AddExisting([result |-> <<>>, fieldMap |-> fieldMap],
                              existingFields)
  IN AddNew(first, newFields).result

\* MergeFields on slice contents (the aliasing of the fast paths is in
\* MergeFields below).
MergeFieldsVal(existingFields, newFields) ==
  IF Len(existingFields) = 0 THEN newFields
  ELSE IF Len(newFields) = 0 THEN existingFields
  ELSE MergeLoops(existingFields, newFields)

\* ------------------------------------------------------------------- state
VARIABLES
  heap,   \* backing arrays: <<[data, caller, from, view], ...>>, ids 1..Len(heap)
  ctxs,   \* derived contexts: <<[parent, key, val], ...>>, ids 1..Len(ctxs)
  last,   \* the last call: its operation, context, result and fault
  given,  \* given[c]: the fields passed to the call that created context c
  sink,   \* the calls made to the underlying zap.Logger: <<[level, fields, stops]>>
  procs   \* the goroutines of ConcSpec: their position and locals

vars == <<heap, ctxs, last, given, sink, procs>>

\* context.Background() and the nil context.Context.
Background == 0
NilCtx == 0 - 1

\* A slice header; arr = 0 is the nil slice.
NilSlice == [arr |-> 0, len |-> 0]
Contents(hp, s) == IF s.arr = 0 THEN <<>> ELSE SubSeq(hp[s.arr].data, 1, s.len)

\* A backing array allocated by make or by a slice literal.  caller: the
\* caller holds a slice over it; from: the context whose FieldsFromContext
\* call returned it (NilCtx: none); view: the length of the caller's slice.
NewArray(data, caller, from) ==
  [data |-> data, caller |-> caller, from |-> from, view |-> Len(data)]

Handles == 0..Len(ctxs)
CallerArrays == {a \in DOMAIN heap : heap[a].caller}
CallerSlices == {[arr |-> a, len |-> heap[a].view] : a \in CallerArrays}

\* ----------------------------------------------------------------- context
\* ctx.Value(key): the value of the nearest context, from ctx up to the root,
\* that was created with this key.
ValueNoWalk(cx, ctx, key) ==
  IF ctx = Background THEN [ok |-> FALSE, val |-> NilSlice]
  ELSE IF cx[ctx].key = key THEN [ok |-> TRUE, val |-> cx[ctx].val]
  ELSE [ok |-> FALSE, val |-> NilSlice]

RECURSIVE Value(_, _, _)
Value(cx, ctx, key) ==
  IF ctx = Background THEN [ok |-> FALSE, val |-> NilSlice]
  ELSE IF cx[ctx].key = key THEN [ok |-> TRUE, val |-> cx[ctx].val]
  ELSE Value(cx, cx[ctx].parent, key)

\* context.WithValue(parent, key, val): panics on a nil parent, else a child.
WithValue(parent, key, val) ==
  IF parent = NilCtx
    THEN [fault |-> TRUE, rctx |-> NilCtx, ctxs |-> ctxs]
    ELSE [fault |-> FALSE, rctx |-> Len(ctxs) + 1,
          ctxs |-> Append(ctxs, [parent |-> parent, key |-> key, val |-> val])]

\* ------------------------------------------------------------------- store
\* FieldsFromContext(ctx) over the heap hp: nil for a nil context or no
\* stored value, else a copy in a fresh backing array.
FieldsFromContextNoCopy(hp, ctx) ==
  IF ctx = NilCtx THEN [ret |-> NilSlice, heap |-> hp]
  ELSE LET v == Value(ctxs, ctx, "fieldsKey")
       IN IF ~v.ok THEN [ret |-> NilSlice, heap |-> hp]
          ELSE [ret |-> v.val, heap |-> hp]

FieldsFromContext(hp, ctx) ==
  IF ctx = NilCtx THEN [ret |-> NilSlice, heap |-> hp]
  ELSE LET v == Value(ctxs, ctx, "fieldsKey")
       IN IF ~v.ok THEN [ret |-> NilSlice, heap |-> hp]
          ELSE [ret  |-> [arr |-> Len(hp) + 1, len |-> v.val.len],
                heap |-> Append(hp, NewArray(Contents(hp, v.val), FALSE, NilCtx))]

\* MergeFields on slices over the heap hp: the fast paths return an input
\* slice itself, the slow path a slice over a fresh backing array.
MergeFieldsNoFastPath(hp, existingFields, newFields) ==
  LET result == MergeLoops(Contents(hp, existingFields),
                           Contents(hp, newFields))
  IN [ret  |-> [arr |-> Len(hp) + 1, len |-> Len(result)],
      heap |-> Append(hp, NewArray(result, FALSE, NilCtx))]

MergeFields(hp, existingFields, newFields) ==
  IF existingFields.len = 0 THEN [ret |-> newFields, heap |-> hp]
  ELSE IF newFields.len = 0 THEN [ret |-> existingFields, heap |-> hp]
  ELSE LET result == MergeLoops(Contents(hp, existingFields),
                                Contents(hp, newFields))
       IN [ret  |-> [arr |-> Len(hp) + 1, len |-> Len(result)],
           heap |-> Append(hp, NewArray(result, FALSE, NilCtx))]

\* WithFields(ctx, fields...) over the heap hp.
WithFieldsNewOnly(hp, ctx, fields) ==
  IF fields.len = 0
    THEN [fault |-> FALSE, rctx |-> ctx, ctxs |-> ctxs, heap |-> hp]
  ELSE LET w == WithValue(ctx, "fieldsKey", fields)
       IN [fault |-> w.fault, rctx |-> w.rctx, ctxs |-> w.ctxs, heap |-> hp]

WithFieldsInPlace(hp, ctx, fields) ==
  IF fields.len = 0
    THEN [fault |-> FALSE, rctx |-> ctx, ctxs |-> ctxs, heap |-> hp]
  ELSE LET existingFields == FieldsFromContextNoCopy(hp, ctx)
       IN IF existingFields.ret.len = 0
            THEN LET w == WithValue(ctx, "fieldsKey", fields)
                 IN [fault |-> w.fault, rctx |-> w.rctx, ctxs |-> w.ctxs,
                     heap |-> hp]
            ELSE LET arr    == existingFields.ret.arr
                     result == MergeLoops(Contents(hp, existingFields.ret),
                                          Contents(hp, fields))
                     data   == result \o SubSeq(hp[arr].data, Len(result) + 1,
                                                Len(hp[arr].data))
                     w == WithValue(ctx, "fieldsKey",
                                    [arr |-> arr, len |-> Len(result)])
                 IN [fault |-> w.fault, rctx |-> w.rctx, ctxs |-> w.ctxs,
                     heap |-> [hp EXCEPT ![arr].data = data]]

WithFieldsNoEarlyReturn(hp, ctx, fields) ==
  LET existingFields == FieldsFromContext(hp, ctx)
  IN IF existingFields.ret.len = 0
       THEN LET w == WithValue(ctx, "fieldsKey", fields)
            IN [fault |-> w.fault, rctx |-> w.rctx, ctxs |-> w.ctxs,
                heap |-> existingFields.heap]
       ELSE LET mergedFields == MergeFields(existingFields.heap,
                                            existingFields.ret, fields)
                w == WithValue(ctx, "fieldsKey", mergedFields.ret)
            IN [fault |-> w.fault, rctx |-> w.rctx, ctxs |-> w.ctxs,
                heap |-> mergedFields.heap]

WithFields(hp, ctx, fields) ==
  IF fields.len = 0
    THEN [fault |-> FALSE, rctx |-> ctx, ctxs |-> ctxs, heap |-> hp]
  ELSE LET existingFields == FieldsFromContext(hp, ctx)
       IN IF existingFields.ret.len = 0
            THEN LET w == WithValue(ctx, "fieldsKey", fields)
                 IN [fault |-> w.fault, rctx |-> w.rctx, ctxs |-> w.ctxs,
                     heap |-> existingFields.heap]
            ELSE LET mergedFields == MergeFields(existingFields.heap,
                                                 existingFields.ret, fields)
                     w == WithValue(ctx, "fieldsKey", mergedFields.ret)
                 IN [fault |-> w.fault, rctx |-> w.rctx, ctxs |-> w.ctxs,
                     heap |-> mergedFields.heap]

\* The fields a FieldsFromContext(ctx) call returns in the current state.
FieldsOf(ctx) ==
  LET r == FieldsFromContext(heap, ctx) IN Contents(r.heap, r.ret)

\* ------------------------------------------------------- garbage collection
\* Backing arrays no caller variable and no context refers to are freed;
\* the heap keeps the reachable ones, in allocation order.
Reachable(hp, cx) ==
  ({a \in DOMAIN hp : hp[a].caller} \cup {cx[c].val.arr : c \in DOMAIN cx})
    \ {0}
Rank(R, a) == IF a = 0 THEN 0 ELSE Cardinality({b \in R : b <= a})
Collect(hp, cx) ==
  LET R == Reachable(hp, cx)
  IN [heap |-> [i \in 1..Cardinality(R) |->
                  hp[CHOOSE a \in R : Rank(R, a) = i]],
      ctxs |-> [c \in DOMAIN cx |->
                  [cx[c] EXCEPT !.val.arr = Rank(R, cx[c].val.arr)]],
      at   |-> [a \in DOMAIN hp |-> IF a \in R THEN Rank(R, a) ELSE 0]]

\* ----------------------------------------------------------------- actions
\* The fields and field lists a caller passes or builds, in Spec and in
\* ChainSpec.
StoreField == [Key : StoreKeys, Val : StoreVals]
Literals == SeqsUpTo(StoreField, MaxLen)
ChainLiterals == SeqsUpTo([Key : StoreKeys, Val : Vals], MaxLen)

\* A call: the context and the fields (the contents of the slice) it got,
\* the context or the slice it returned, whether it panicked.
Call(op, ctx, fields, rctx, ret, fault) ==
  [op |-> op, ctx |-> ctx, fields |-> fields, rctx |-> rctx, ret |-> ret,
   fault |-> fault]

NoLast == Call("none", NilCtx, <<>>, NilCtx, NilSlice, FALSE)
\* What `last` holds after the caller wrote to a slice of its own.
Mutated == Call("mutate", NilCtx, <<>>, NilCtx, NilSlice, FALSE)

\* The caller builds a slice: s := []zap.Field{...}.
NewSlice(F) ==
  /\ ~last.fault
  /\ Cardinality(CallerArrays) < MaxArrays
  /\ heap' = Append(heap, NewArray(F, TRUE, NilCtx))
  /\ last' = Call("NewSlice", NilCtx, <<>>, NilCtx,
                  [arr |-> Len(heap) + 1, len |-> Len(F)], FALSE)
  /\ UNCHANGED <<ctxs, given, sink, procs>>

\* The state after a WithFields call that got the slice `fields` over hp.
AfterWithFields(hp, ctx, fields) ==
  /\ ~last.fault
  /\ \E r \in {WithFields(hp, ctx, fields)} :
       \E g \in {Collect(r.heap, r.ctxs)} :
         /\ ctxs' = g.ctxs
         /\ heap' = g.heap
         /\ given' = IF Len(r.ctxs) > Len(ctxs)
                       THEN Append(given, Contents(hp, fields))
                       ELSE given
         /\ UNCHANGED <<sink, procs>>
         /\ last' = Call("WithFields", ctx, Contents(hp, fields), r.rctx,
                         NilSlice, r.fault)

\* ctx2 := WithFields(ctx, f1, f2, ...): the compiler builds the variadic
\* slice in a fresh backing array no caller variable refers to (nil when
\* there are no fields).
CallWithFieldsLit(ctx, F) ==
  IF F = <<>>
    THEN AfterWithFields(heap, ctx, NilSlice)
    ELSE AfterWithFields(Append(heap, NewArray(F, FALSE, NilCtx)), ctx,
                         [arr |-> Len(heap) + 1, len |-> Len(F)])

\* ctx2 := WithFields(ctx, s...), s a slice the caller holds: the callee
\* receives the caller's slice header itself.
CallWithFields(ctx, s) ==
  /\ s \in CallerSlices
  /\ AfterWithFields(heap, ctx, s)

\* got := FieldsFromContext(ctx); the caller keeps the returned slice.
CallFieldsFromContext(ctx) ==
  /\ ~last.fault
  /\ \E r \in {FieldsFromContext(heap, ctx)} :
       /\ r.ret.arr # 0 => Cardinality(CallerArrays) < MaxArrays
       /\ heap' = IF r.ret.arr = 0 THEN r.heap
                  ELSE [r.heap EXCEPT ![r.ret.arr].caller = TRUE,
                                      ![r.ret.arr].from = ctx,
                                      ![r.ret.arr].view = r.ret.len]
       /\ last' = Call("FieldsFromContext", ctx, <<>>, NilCtx, r.ret, FALSE)
  /\ UNCHANGED <<ctxs, given, sink, procs>>

\* A context derived by other means: context.WithValue(ctx, otherKey, v).
CallWithOther(ctx) ==
  LET w == WithValue(ctx, "otherKey", NilSlice)
  IN /\ ~last.fault
     /\ ctx # NilCtx
     /\ ctxs' = w.ctxs
     /\ given' = Append(given, <<>>)
     /\ UNCHANGED <<sink, procs>>
     /\ last' = Call("WithOther", ctx, <<>>, w.rctx, NilSlice, w.fault)
     /\ UNCHANGED heap

\* The caller writes an element of a slice it holds: s[i] = f.  (A caller
\* can reslice up to the capacity, so every element of the array is in reach.)
Overwrite(a, i, f) ==
  /\ ~last.fault
  /\ a \in CallerArrays
  /\ i \in DOMAIN heap[a].data
  /\ heap[a].data[i] # f
  /\ heap' = [heap EXCEPT ![a].data[i] = f]
  /\ last' = Mutated
  /\ UNCHANGED <<ctxs, given, sink, procs>>

\* The caller reorders a slice it holds: s[i], s[j] = s[j], s[i].
Reorder(a, i, j) ==
  /\ ~last.fault
  /\ a \in CallerArrays
  /\ i \in DOMAIN heap[a].data
  /\ j \in DOMAIN heap[a].data
  /\ i < j
  /\ heap[a].data[i] # heap[a].data[j]
  /\ heap' = [heap EXCEPT ![a].data[i] = heap[a].data[j],
                          ![a].data[j] = heap[a].data[i]]
  /\ last' = Mutated
  /\ UNCHANGED <<ctxs, given, sink, procs>>

\* The caller truncates a slice it holds: s = s[:n].
Truncate(a, n) ==
  /\ ~last.fault
  /\ a \in CallerArrays
  /\ n < heap[a].view
  /\ heap' = [heap EXCEPT ![a].view = n]
  /\ last' = Mutated
  /\ UNCHANGED <<ctxs, given, sink, procs>>

Init ==
  /\ heap = <<>>
  /\ ctxs = <<>>
  /\ last = NoLast
  /\ given = <<>>
  /\ sink = <<>>
  /\ procs = <<>>

\* A caller that attaches fields, reads them back and writes to the slices
\* it holds.
Next ==
  \/ \E F \in Literals : NewSlice(F)
  \/ \E ctx \in Handles \cup {NilCtx}, F \in Literals :
       Len(ctxs) < MaxCtx /\ CallWithFieldsLit(ctx, F)
  \/ \E ctx \in Handles \cup {NilCtx}, s \in CallerSlices :
       Len(ctxs) < MaxCtx /\ CallWithFields(ctx, s)
  \/ \E ctx \in Handles \cup {NilCtx} : CallFieldsFromContext(ctx)
  \/ \E ctx \in Handles : Len(ctxs) < MaxCtx /\ CallWithOther(ctx)
  \/ \E a \in DOMAIN heap, i \in 1..MaxLen, f \in StoreField :
       Overwrite(a, i, f)
  \/ \E a \in DOMAIN heap, i, j \in 1..MaxLen : Reorder(a, i, j)
  \/ \E a \in DOMAIN heap, n \in 0..MaxLen : Truncate(a, n)

Spec == Init /\ [][Next]_vars

\* A caller that only derives contexts: any tree of WithFields calls.
ChainNext ==
  \/ \E ctx \in Handles \cup {NilCtx}, F \in ChainLiterals :
       Len(ctxs) < MaxChain /\ CallWithFieldsLit(ctx, F)
  \/ \E ctx \in Handles : Len(ctxs) < MaxChain /\ CallWithOther(ctx)

ChainSpec == Init /\ [][ChainNext]_vars

\* ------------------------------------------------------- MergeFields alone
\* merged := MergeFields(s1, s2) on two slices the caller holds; the caller
\* keeps the result.
CallMergeFields(s1, s2) ==
  /\ ~last.fault
  /\ \E r \in {MergeFields(heap, s1, s2)} :
       /\ heap' = [r.heap EXCEPT ![r.ret.arr].caller = TRUE]
       /\ last' = Call("MergeFields", NilCtx, <<>>, NilCtx, r.ret, FALSE)
  /\ UNCHANGED <<ctxs, given, sink, procs>>

\* The caller holds two slices, existingFields and newFields, of any contents.
MergeInit ==
  \E e, n \in SeqsUpTo(Field, MaxMergeLen) :
    /\ heap = <<NewArray(e, TRUE, NilCtx), NewArray(n, TRUE, NilCtx)>>
    /\ ctxs = <<>>
    /\ last = NoLast
    /\ given = <<>>
    /\ sink = <<>>
    /\ procs = <<>>

MergeNext ==
  /\ last.op = "none"
  /\ CallMergeFields([arr |-> 1, len |-> Len(heap[1].data)],
                     [arr |-> 2, len |-> Len(heap[2].data)])

MergeSpec == MergeInit /\ [][MergeNext]_vars

\* In MergeSpec: the two inputs and, once MergeFields returned, its result.
Merged == last.op = "MergeFields"
existing == heap[1].data
incoming == heap[2].data
mergeResult == Contents(heap, last.ret)

\* The value the collection s gives the key k (s unique-keyed, k in it).
ValueOf(s, k) == s[CHOOSE i \in DOMAIN s : s[i].Key = k].Val
\* The fields of s whose key is not in the set K, in their order in s.
RECURSIVE Without(_, _)
Without(s, K) ==
  IF s = <<>> THEN <<>>
  ELSE IF Head(s).Key \in K THEN Without(Tail(s), K)
  ELSE <<Head(s)>> \o Without(Tail(s), K)
\* The positions of the key k in s.
Occurrences(s, k) == {i \in DOMAIN s : s[i].Key = k}

\* C2: for unique-keyed existing and incoming, MergeFields(existing, incoming)
\* is the fields of existing whose key is not in incoming, in their order,
\* followed by all of incoming in its order, whatever the incoming values.
C2_MergeOrder ==
  (Merged /\ UniqueKeys(existing) /\ UniqueKeys(incoming))
    => mergeResult = Without(existing, KeysOf(incoming)) \o incoming

\* C3: for a non-empty unique-keyed existing and an incoming that repeats a
\* key, the result holds that key exactly once, with the value of its last
\* occurrence in incoming.
C3_LastOccurrenceWins ==
  (Merged /\ existing # <<>> /\ UniqueKeys(existing))
    => \A k \in KeysOf(incoming) :
         Cardinality(Occurrences(incoming, k)) > 1
           => /\ Cardinality(Occurrences(mergeResult, k)) = 1
              /\ \A i \in Occurrences(mergeResult, k) :
                   LET lastAt == CHOOSE j \in Occurrences(incoming, k) :
                                   \A j2 \in Occurrences(incoming, k) : j2 <= j
                   IN mergeResult[i].Val = incoming[lastAt].Val

\* C4: for unique-keyed existing and incoming, the keys of the result are
\* exactly the keys of the two inputs, and each key has incoming's value when
\* incoming has the key and existing's value otherwise.
C4_MergeOverrideMap ==
  (Merged /\ UniqueKeys(existing) /\ UniqueKeys(incoming))
    => /\ KeysOf(mergeResult) = KeysOf(existing) \cup KeysOf(incoming)
       /\ \A i \in DOMAIN mergeResult :
            LET k == mergeResult[i].Key
            IN mergeResult[i].Val = IF k \in KeysOf(incoming)
                                      THEN ValueOf(incoming, k)
                                      ELSE ValueOf(existing, k)

\* C4's case: a merge of unique-keyed inputs that share a key with different
\* values and each have a key of their own.
C4_Witness ==
  /\ Merged /\ UniqueKeys(existing) /\ UniqueKeys(incoming)
  /\ \E k \in KeysOf(existing) \cap KeysOf(incoming) :
       ValueOf(existing, k) # ValueOf(incoming, k)
  /\ KeysOf(existing) \ KeysOf(incoming) # {}
  /\ KeysOf(incoming) \ KeysOf(existing) # {}
  /\ Len(mergeResult) = 3

\* C5: for a unique-keyed existing and any incoming, the result of MergeFields
\* has no two fields with the same key.
C5_MergeOutputUnique ==
  (Merged /\ UniqueKeys(existing)) => UniqueKeys(mergeResult)

\* ------------------------------------------------------------ store claims
\* d is h or was derived from h, directly or through other contexts.
RECURSIVE DerivedFrom(_, _)
DerivedFrom(d, h) ==
  \/ d = h
  \/ d # Background /\ DerivedFrom(ctxs[d].parent, h)

\* C1: on every context reachable by WithFields calls, with any field lists
\* (lists that repeat a key included), FieldsFromContext returns no two
\* fields with the same key.
C1_StoreKeysUnique == \A h \in Handles : UniqueKeys(FieldsOf(h))

\* C6: for a context ctx and a non-empty field list, WithFields returns a new
\* child of ctx whose fields are MergeFields(FieldsFromContext(ctx), fields);
\* with keys all different from each other and from those of ctx, that is the
\* fields of ctx followed by the attached ones.
C6_Accumulation ==
  (last.op = "WithFields" /\ last.fields # <<>> /\ last.ctx # NilCtx)
    => /\ ~last.fault
       /\ last.rctx = Len(ctxs)
       /\ last.rctx # last.ctx
       /\ ctxs[last.rctx].parent = last.ctx
       /\ FieldsOf(last.rctx) = MergeFieldsVal(FieldsOf(last.ctx), last.fields)
       /\ UniqueKeys(FieldsOf(last.ctx) \o last.fields)
            => FieldsOf(last.rctx) = FieldsOf(last.ctx) \o last.fields

\* C6's case: fields attached to a context that has fields, one of them
\* overriding a key of the context and one adding a key.
C6_Witness ==
  /\ last.op = "WithFields" /\ ~last.fault /\ last.rctx = Len(ctxs)
  /\ last.ctx # Background
  /\ \E k \in KeysOf(FieldsOf(last.ctx)) \cap KeysOf(last.fields) :
       \E i \in DOMAIN last.fields :
         /\ last.fields[i].Key = k
         /\ last.fields[i].Val # ValueOf(FieldsOf(last.ctx), k)
  /\ KeysOf(last.fields) \ KeysOf(FieldsOf(last.ctx)) # {}
  /\ Len(FieldsOf(last.rctx)) = 2

\* C7: a WithFields call changes the fields of no context that exists, and
\* the keys of the context it returns are keys of its parent or keys it was
\* given, so a key attached on one branch never shows in another.
C7_Independence ==
  [][/\ \A h \in Handles : FieldsOf(h)' = FieldsOf(h)
     /\ Len(ctxs') > Len(ctxs)
          => \A c \in {Len(ctxs')} : \A p \in {ctxs'[c].parent} :
               KeysOf(FieldsOf(c)') \subseteq
                 KeysOf(FieldsOf(p)) \cup KeysOf(last'.fields)]_vars

\* C7's case: two contexts derived from the same parent with a key each the
\* other lacks, and a context derived from one of them that overrides it.
C7_Witness ==
  \E h1, h2, h3 \in DOMAIN ctxs :
    /\ h1 # h2
    /\ ctxs[h1].parent = ctxs[h2].parent
    /\ ctxs[h3].parent = h1
    /\ KeysOf(FieldsOf(h1)) \ KeysOf(FieldsOf(h2)) # {}
    /\ KeysOf(FieldsOf(h2)) \ KeysOf(FieldsOf(h1)) # {}
    /\ KeysOf(FieldsOf(h3)) = KeysOf(FieldsOf(h1)) \cup KeysOf(FieldsOf(h2))
    /\ FieldsOf(h3) # FieldsOf(h1)

\* A step in which the caller wrote to, reordered or truncated its slice
\* over the array a.
CallerChanged(a) ==
  /\ last'.op = "mutate"
  /\ heap[a].caller
  /\ heap'[a].data # heap[a].data \/ heap'[a].view # heap[a].view

\* C8: writing to, reordering or truncating a slice FieldsFromContext(h)
\* returned changes the fields of neither h nor any context derived from h.
C8_DefensiveCopy ==
  [][\A a \in DOMAIN heap :
       (CallerChanged(a) /\ heap[a].from # NilCtx)
         => \A d \in Handles :
              DerivedFrom(d, heap[a].from) => FieldsOf(d)' = FieldsOf(d)]_vars

\* C8's case: the caller changed the slice it got from a context h that has
\* a context derived from it, so that it differs from FieldsFromContext(h).
C8_Witness ==
  /\ last.op = "mutate"
  /\ \E a \in CallerArrays :
       /\ heap[a].from # NilCtx
       /\ heap[a].data # FieldsOf(heap[a].from)
       /\ heap[a].view < Len(heap[a].data)
       /\ \E d \in Handles : d # heap[a].from /\ DerivedFrom(d, heap[a].from)

\* C9: once WithFields returned a context h, FieldsFromContext(h) returns
\* the same fields for ever, whatever the caller does in between, writes to
\* the slice it passed as the fields of that call included.
C9_FixedAtCreation ==
  [][\A h \in DOMAIN ctxs : FieldsOf(h)' = FieldsOf(h)]_vars

\* C10: WithFields never faults, a nil context included.
C10_AttachTotal == ~last.fault

\* ------------------------------------------------------------------ logger
\* The body the seven severity methods of Logger share: the arguments the
\* method passes to the method of the same name of the embedded zap.Logger.
EmissionReversed(hp, ctx, fields) ==
  LET contextFields == FieldsFromContext(hp, ctx)
  IN IF contextFields.ret.len = 0
       THEN [args |-> fields, heap |-> contextFields.heap]
       ELSE LET allFields == MergeFields(contextFields.heap, fields,
                                         contextFields.ret)
            IN [args |-> allFields.ret, heap |-> allFields.heap]

Emission(hp, ctx, fields) ==
  LET contextFields == FieldsFromContext(hp, ctx)
  IN IF contextFields.ret.len = 0
       THEN [args |-> fields, heap |-> contextFields.heap]
       ELSE LET allFields == MergeFields(contextFields.heap,
                                         contextFields.ret, fields)
            IN [args |-> allFields.ret, heap |-> allFields.heap]

\* l.Logger.<level>(msg, e.args...): the call to the embedded zap.Logger.
ZapCall(level, e) == [level |-> level, args |-> e.args, heap |-> e.heap]

Debug(hp, ctx, fields) == ZapCall("Debug", Emission(hp, ctx, fields))
Info(hp, ctx, fields) == ZapCall("Info", Emission(hp, ctx, fields))
Warn(hp, ctx, fields) == ZapCall("Warn", Emission(hp, ctx, fields))
Error(hp, ctx, fields) == ZapCall("Error", Emission(hp, ctx, fields))
DPanic(hp, ctx, fields) == ZapCall("DPanic", Emission(hp, ctx, fields))
Panic(hp, ctx, fields) == ZapCall("Panic", Emission(hp, ctx, fields))
Fatal(hp, ctx, fields) == ZapCall("Fatal", Emission(hp, ctx, fields))

Methods == {"Debug", "Info", "Warn", "Error", "DPanic", "Panic", "Fatal"}
Method(op, hp, ctx, fields) ==
  CASE op = "Debug"  -> Debug(hp, ctx, fields)
    [] op = "Info"   -> Info(hp, ctx, fields)
    [] op = "Warn"   -> Warn(hp, ctx, fields)
    [] op = "Error"  -> Error(hp, ctx, fields)
    [] op = "DPanic" -> DPanic(hp, ctx, fields)
    [] op = "Panic"  -> Panic(hp, ctx, fields)
    [] op = "Fatal"  -> Fatal(hp, ctx, fields)

\* After writing the record, zap's Panic panics, Fatal exits and DPanic
\* panics when the logger is in development mode.
Stops(level) ==
  IF level \in {"Panic", "Fatal"} THEN {TRUE}
  ELSE IF level = "DPanic" THEN BOOLEAN
  ELSE {FALSE}
Stopped == last.fault \/ (sink # <<>> /\ sink[Len(sink)].stops)

\* The state after logger.<op>(ctx, msg, fields...) got the slice `fields`
\* over hp: the embedded logger got one call; what the method allocated is
\* garbage when it returns.
AfterLog(op, hp, ctx, fields) ==
  /\ ~Stopped
  /\ Len(sink) < MaxLog
  /\ \E r \in {Method(op, hp, ctx, fields)} :
       \E g \in {Collect(r.heap, ctxs)} :
         /\ \E stops \in Stops(r.level) :
              sink' = Append(sink, [level  |-> r.level,
                                    fields |-> Contents(r.heap, r.args),
                                    stops  |-> stops])
         /\ heap' = g.heap
         /\ ctxs' = g.ctxs
         /\ last' = Call(op, ctx, Contents(hp, fields), NilCtx, NilSlice,
                         FALSE)
  /\ UNCHANGED <<given, procs>>

\* logger.<op>(ctx, msg, f1, f2, ...): the variadic slice is built by the
\* compiler (nil when there are no fields).
CallLog(op, ctx, F) ==
  IF F = <<>>
    THEN AfterLog(op, heap, ctx, NilSlice)
    ELSE AfterLog(op, Append(heap, NewArray(F, FALSE, NilCtx)), ctx,
                  [arr |-> Len(heap) + 1, len |-> Len(F)])

\* A program that attaches fields to contexts and logs with them.
LogNext ==
  \/ \E ctx \in Handles \cup {NilCtx}, F \in ChainLiterals :
       /\ ~Stopped
       /\ Len(ctxs) < MaxLogCtx
       /\ CallWithFieldsLit(ctx, F)
  \/ \E op \in Methods, ctx \in Handles \cup {NilCtx}, F \in ChainLiterals :
       CallLog(op, ctx, F)

LogSpec == Init /\ [][LogNext]_vars

\* -------------------------------------------------------------- goroutines
\* Several goroutines call FieldsFromContext, WithFields and MergeFields on
\* the contexts of one tree.  Each step is one read or write of an element
\* of a backing array, one map operation or one allocation.
Procs == 1..NumProcs
Programs == {"FieldsFromContext", "WithFields", "MergeFields"}
ConcLiterals == SeqsUpTo([Key : StoreKeys, Val : {2}], MaxConcLen)

\* The zero zap.Field make fills a new array with.
Zero == [Key |-> "", Val |-> 0]
Zeros(n) == [i \in 1..n |-> Zero]

\* A goroutine: the call it runs, its position in it and its locals.
IdleProc ==
  [prog |-> "none", pc |-> "idle", ctx |-> NilCtx, fields |-> NilSlice,
   stored |-> NilSlice, existing |-> NilSlice, fieldMap |-> EmptyMap,
   result |-> NilSlice, i |-> 0, rctx |-> NilCtx]

\* Where a goroutine continues when FieldsFromContext, MergeFields return.
AfterFieldsFromContext(prog) ==
  CASE prog = "FieldsFromContext" -> "done"
    [] prog = "WithFields"        -> "wf2"
    [] prog = "MergeFields"       -> "mf"
AfterMergeFields(prog) ==
  CASE prog = "MergeFields" -> "done"
    [] prog = "WithFields"  -> "store"

\* One element of copy(dst, src).
CopyElemSwapped(hp, dst, src, i) ==
  [hp EXCEPT ![src.arr].data[i] = hp[dst.arr].data[i]]
CopyElem(hp, dst, src, i) ==
  [hp EXCEPT ![dst.arr].data[i] = hp[src.arr].data[i]]

\* result = append(result, field), within the capacity of result.
AppendElem(hp, result, field) ==
  [hp EXCEPT ![result.arr].data[result.len + 1] = field]

\* The goroutine p starts got := FieldsFromContext(c), WithFields(c, F...)
\* or got := FieldsFromContext(c); MergeFields(got, []zap.Field{F...}).
Start(p, prog, c, F) ==
  /\ procs[p].pc = "idle"
  /\ prog = "FieldsFromContext" => F = <<>>
  /\ heap' = IF F = <<>> THEN heap
             ELSE Append(heap, NewArray(F, FALSE, NilCtx))
  /\ procs' = [procs EXCEPT ![p] =
       [IdleProc EXCEPT
          !.prog = prog,
          !.pc = IF prog = "WithFields" THEN "wf" ELSE "ffc",
          !.ctx = c,
          !.fields = IF F = <<>> THEN NilSlice
                     ELSE [arr |-> Len(heap) + 1, len |-> Len(F)]]]
  /\ UNCHANGED <<ctxs, given, last, sink>>

\* WithFields: if len(fields) == 0 { return ctx }.
StepWithFields(p) ==
  /\ procs[p].pc = "wf"
  /\ procs' = [procs EXCEPT ![p] =
       IF procs[p].fields.len = 0
         THEN [procs[p] EXCEPT !.pc = "done", !.rctx = procs[p].ctx]
         ELSE [procs[p] EXCEPT !.pc = "ffc"]]
  /\ UNCHANGED <<heap, ctxs, given, last, sink>>

\* FieldsFromContext: the nil check, ctx.Value(fieldsKey) and
\* result := make([]zap.Field, len(fields)).
StepValue(p) ==
  /\ procs[p].pc = "ffc"
  /\ \E pr \in {procs[p]} :
       \E v \in {IF pr.ctx = NilCtx THEN [ok |-> FALSE, val |-> NilSlice]
                 ELSE Value(ctxs, pr.ctx, "fieldsKey")} :
         IF ~v.ok
           THEN /\ procs' = [procs EXCEPT ![p] =
                     [pr EXCEPT !.pc = AfterFieldsFromContext(pr.prog),
                                !.existing = NilSlice]]
                /\ UNCHANGED heap
           ELSE /\ heap' = Append(heap,
                                  NewArray(Zeros(v.val.len), FALSE, NilCtx))
                /\ procs' = [procs EXCEPT ![p] =
                     [pr EXCEPT !.pc = "copy",
                                !.stored = v.val,
                                !.existing = [arr |-> Len(heap) + 1,
                                              len |-> v.val.len],
                                !.i = 1]]
  /\ UNCHANGED <<ctxs, given, last, sink>>

\* FieldsFromContext: copy(result, fields), an element at a time, and the
\* return.
StepCopy(p) ==
  /\ procs[p].pc = "copy"
  /\ \E pr \in {procs[p]} :
       IF pr.i > pr.stored.len
         THEN /\ procs' = [procs EXCEPT ![p] =
                   [pr EXCEPT !.pc = AfterFieldsFromContext(pr.prog)]]
              /\ UNCHANGED heap
         ELSE /\ heap' = CopyElem(heap, pr.existing, pr.stored, pr.i)
              /\ procs' = [procs EXCEPT ![p] = [pr EXCEPT !.i = pr.i + 1]]
  /\ UNCHANGED <<ctxs, given, last, sink>>

\* WithFields: if len(existingFields) == 0, store fields, else merge.
StepExisting(p) ==
  /\ procs[p].pc = "wf2"
  /\ procs' = [procs EXCEPT ![p] =
       IF procs[p].existing.len = 0
         THEN [procs[p] EXCEPT !.pc = "store", !.result = procs[p].fields]
         ELSE [procs[p] EXCEPT !.pc = "mf"]]
  /\ UNCHANGED <<heap, ctxs, given, last, sink>>

\* MergeFields: the two early returns and fieldMap := make(...).
StepMergeFields(p) ==
  /\ procs[p].pc = "mf"
  /\ \E pr \in {procs[p]} :
       procs' = [procs EXCEPT ![p] =
         IF pr.existing.len = 0
           THEN [pr EXCEPT !.pc = AfterMergeFields(pr.prog),
                           !.result = pr.fields]
         ELSE IF pr.fields.len = 0
           THEN [pr EXCEPT !.pc = AfterMergeFields(pr.prog),
                           !.result = pr.existing]
         ELSE [pr EXCEPT !.pc = "fill1", !.fieldMap = EmptyMap, !.i = 1]]
  /\ UNCHANGED <<heap, ctxs, given, last, sink>>

\* MergeFields: for _, field := range existingFields { fieldMap[...] = field }.
StepFillExisting(p) ==
  /\ procs[p].pc = "fill1"
  /\ \E pr \in {procs[p]} :
       procs' = [procs EXCEPT ![p] =
         IF pr.i > pr.existing.len
           THEN [pr EXCEPT !.pc = "fill2", !.i = 1]
           ELSE \* the read of existingFields[i]
                LET field == heap[pr.existing.arr].data[pr.i]
                IN [pr EXCEPT !.fieldMap = MapPut(pr.fieldMap, field.Key, field),
                              !.i = pr.i + 1]]
  /\ UNCHANGED <<heap, ctxs, given, last, sink>>

\* MergeFields: for _, field := range newFields { fieldMap[...] = field },
\* then result := make([]zap.Field, 0, len(fieldMap)).
StepFillNew(p) ==
  /\ procs[p].pc = "fill2"
  /\ \E pr \in {procs[p]} :
       IF pr.i > pr.fields.len
         THEN /\ heap' = Append(heap,
                   NewArray(Zeros(Cardinality(DOMAIN pr.fieldMap)), FALSE,
                            NilCtx))
              /\ procs' = [procs EXCEPT ![p] =
                   [pr EXCEPT !.pc = "out1",
                              !.result = [arr |-> Len(heap) + 1, len |-> 0],
                              !.i = 1]]
         ELSE /\ UNCHANGED heap
              /\ procs' = [procs EXCEPT ![p] =
                   LET field == heap[pr.fields.arr].data[pr.i]
                   IN [pr EXCEPT
                         !.fieldMap = MapPut(pr.fieldMap, field.Key, field),
                         !.i = pr.i + 1]]
  /\ UNCHANGED <<ctxs, given, last, sink>>

\* One iteration of an output loop of MergeFields over the slice s: when
\* keep holds of the field, append it to result and delete its key.
OutputStep(p, s, next, equal) ==
  \E pr \in {procs[p]} :
    IF pr.i > s.len
      THEN /\ procs' = [procs EXCEPT ![p] = [pr EXCEPT !.pc = next, !.i = 1]]
           /\ UNCHANGED heap
      ELSE \E field \in {heap[s.arr].data[pr.i]} :
             IF /\ field.Key \in DOMAIN pr.fieldMap
                /\ equal => Equals(pr.fieldMap[field.Key], field)
               THEN /\ heap' = AppendElem(heap, pr.result, field)
                    /\ procs' = [procs EXCEPT ![p] =
                         [pr EXCEPT
                            !.result.len = pr.result.len + 1,
                            !.fieldMap = MapDelete(pr.fieldMap, field.Key),
                            !.i = pr.i + 1]]
               ELSE /\ UNCHANGED heap
                    /\ procs' = [procs EXCEPT ![p] =
                         [pr EXCEPT !.i = pr.i + 1]]

\* MergeFields: the first output loop, over existingFields.
StepOutExisting(p) ==
  /\ procs[p].pc = "out1"
  /\ OutputStep(p, procs[p].existing, "out2", TRUE)
  /\ UNCHANGED <<ctxs, given, last, sink>>

\* MergeFields: the second output loop, over newFields, and the return.
StepOutNew(p) ==
  /\ procs[p].pc = "out2"
  /\ OutputStep(p, procs[p].fields, AfterMergeFields(procs[p].prog), FALSE)
  /\ UNCHANGED <<ctxs, given, last, sink>>

\* WithFields: return context.WithValue(ctx, fieldsKey, ...).
StepStore(p) ==
  /\ procs[p].pc = "store"
  /\ \E pr \in {procs[p]} :
       \E w \in {WithValue(pr.ctx, "fieldsKey", pr.result)} :
         /\ ~w.fault
         /\ ctxs' = w.ctxs
         /\ given' = Append(given, Contents(heap, pr.fields))
         /\ procs' = [procs EXCEPT ![p] =
              [pr EXCEPT !.pc = "done", !.rctx = w.rctx]]
  /\ UNCHANGED <<heap, last, sink>>

\* A context with fields that the goroutines share.
ConcInit ==
  \E F \in Literals \ {<<>>} :
    /\ heap = <<NewArray(F, FALSE, NilCtx)>>
    /\ ctxs = <<[parent |-> Background, key |-> "fieldsKey",
                 val |-> [arr |-> 1, len |-> Len(F)]]>>
    /\ given = <<F>>
    /\ last = NoLast
    /\ sink = <<>>
    /\ procs = [p \in Procs |-> IdleProc]

ConcNext ==
  \E p \in Procs :
    \/ \E prog \in Programs, c \in Handles, F \in ConcLiterals :
         Start(p, prog, c, F)
    \/ StepWithFields(p)
    \/ StepValue(p)
    \/ StepCopy(p)
    \/ StepExisting(p)
    \/ StepMergeFields(p)
    \/ StepFillExisting(p)
    \/ StepFillNew(p)
    \/ StepOutExisting(p)
    \/ StepOutNew(p)
    \/ StepStore(p)

ConcSpec == ConcInit /\ [][ConcNext]_vars

\* The contexts from h up to the root: h and the contexts it was derived from.
Chain(h) == {d \in DOMAIN ctxs : DerivedFrom(h, d)}

\* C11: FieldsFromContext returns nil, without a fault, for the nil context
\* and for every context that neither has fields nor was derived from one
\* that has; a context derived with another key returns the fields of the
\* context it was derived from.
C11_EmptyRetrieval ==
  /\ last.op = "FieldsFromContext" => ~last.fault
  /\ FieldsFromContext(heap, NilCtx).ret = NilSlice
  /\ \A h \in Handles :
       /\ (\A d \in Chain(h) : ctxs[d].key # "fieldsKey")
            => FieldsFromContext(heap, h).ret = NilSlice
       /\ (h # Background /\ ctxs[h].key = "otherKey")
            => FieldsOf(h) = FieldsOf(ctxs[h].parent)

\* C11's case: FieldsFromContext(nil) returned nil, and a context derived
\* with another key from a context with fields has the fields of that context.
C11_Witness ==
  /\ last.op = "FieldsFromContext" /\ last.ctx = NilCtx
  /\ last.ret = NilSlice
  /\ \E h \in DOMAIN ctxs :
       /\ ctxs[h].key = "otherKey"
       /\ FieldsOf(h) # <<>>
       /\ FieldsOf(h) = FieldsOf(ctxs[h].parent)

\* C12: WithFields with no fields returns the context it was given, the nil
\* context included, without a fault; it creates no context and no stored
\* value, and every context has the fields it had.
C12_EmptyAttachIdentity ==
  [][(last'.op = "WithFields" /\ last'.fields = <<>>)
       => /\ ~last'.fault
          /\ last'.rctx = last'.ctx
          /\ ctxs' = ctxs
          /\ heap' = heap
          /\ \A h \in Handles \cup {NilCtx} : FieldsOf(h)' = FieldsOf(h)]_vars

\* C12's case: WithFields with no fields on a context that has fields
\* returned that context.
C12_Witness ==
  /\ last.op = "WithFields" /\ last.fields = <<>>
  /\ last.ctx \in DOMAIN ctxs
  /\ FieldsOf(last.ctx) # <<>>
  /\ last.rctx = last.ctx

\* C13: MergeFields of an empty existing and incoming is incoming, of
\* existing and an empty incoming is existing, of two empty inputs is empty,
\* and the call leaves the elements of both inputs as they were.
C13_MergeEmptyInputs ==
  [][last'.op = "MergeFields"
       => /\ heap'[1].data = heap[1].data
          /\ heap'[2].data = heap[2].data
          /\ existing = <<>> => Contents(heap', last'.ret) = incoming
          /\ incoming = <<>> => Contents(heap', last'.ret) = existing
          /\ (existing = <<>> /\ incoming = <<>>)
               => Contents(heap', last'.ret) = <<>>]_vars

\* C13's case: MergeFields of an empty existing and an incoming that repeats
\* a key returned incoming as it is.
C13_Witness ==
  /\ Merged
  /\ existing = <<>>
  /\ Len(incoming) = MaxMergeLen
  /\ ~UniqueKeys(incoming)
  /\ mergeResult = incoming

\* The value of the latest attach, from h up to the root, that mentions k.
RECURSIVE LatestValue(_, _)
LatestValue(h, k) ==
  IF k \in KeysOf(given[h]) THEN ValueOf(given[h], k)
  ELSE LatestValue(ctxs[h].parent, k)

\* C14: on a chain of WithFields calls that each got unique-keyed fields,
\* the fields of the last context have exactly the keys attached anywhere in
\* the chain, each once, with the value of the latest attach that has the key.
C14_LastWriterWins ==
  \A h \in DOMAIN ctxs :
    (\A d \in Chain(h) : UniqueKeys(given[d]))
      => \A got \in {FieldsOf(h)} :
           /\ KeysOf(got) = UNION {KeysOf(given[d]) : d \in Chain(h)}
           /\ UniqueKeys(got)
           /\ \A i \in DOMAIN got : got[i].Val = LatestValue(h, got[i].Key)

\* C14's case: a chain of three attaches where the last one overrides a key
\* of the first with another value and the middle one has a key the last
\* one lacks.
C14_Witness ==
  \E h3 \in DOMAIN ctxs : \E h2 \in {ctxs[h3].parent} :
    /\ h2 # Background
    /\ ctxs[h2].parent # Background
    /\ \A d \in Chain(h3) : given[d] # <<>> /\ UniqueKeys(given[d])
    /\ \E h1 \in {ctxs[h2].parent} :
         /\ \E k \in KeysOf(given[h1]) \cap KeysOf(given[h3]) :
              ValueOf(given[h1], k) # ValueOf(given[h3], k)
         /\ KeysOf(given[h2]) \ KeysOf(given[h3]) # {}

\* ------------------------------------------------------------ logger claims
\* The record the last call handed to the embedded logger.
emitted == sink[Len(sink)]

\* C15: each call of a severity method with a context h and fields F makes
\* exactly one call to the embedded logger, at the method's level; its fields
\* are MergeFields(FieldsFromContext(h), F) when h has fields, so that every
\* field emitted under a key of F is a field of F, and F as it is when h has
\* no fields or is nil.
C15_Emission ==
  [][last'.op \in Methods
       => /\ Len(sink') = Len(sink) + 1
          /\ SubSeq(sink', 1, Len(sink)) = sink
          /\ emitted'.level = last'.op
          /\ \A h \in {last'.ctx} : \A F \in {last'.fields} :
               \A cf \in {FieldsOf(h)} : \A e \in {emitted'.fields} :
                 /\ cf # <<>> => e = MergeFieldsVal(cf, F)
                 /\ cf # <<>> =>
                      \A i \in DOMAIN e :
                        e[i].Key \in KeysOf(F)
                          => \E j \in DOMAIN F : F[j] = e[i]
                 /\ cf = <<>> => e = F]_vars

\* C15's case: a method was called with a context that has fields and with
\* fields that give one of its keys another value and add a key.
C15_Witness ==
  /\ last.op \in Methods
  /\ last.ctx \in DOMAIN ctxs
  /\ UniqueKeys(FieldsOf(last.ctx)) /\ UniqueKeys(last.fields)
  /\ \E k \in KeysOf(FieldsOf(last.ctx)) \cap KeysOf(last.fields) :
       /\ ValueOf(FieldsOf(last.ctx), k) # ValueOf(last.fields, k)
       /\ ValueOf(emitted.fields, k) = ValueOf(last.fields, k)
  /\ KeysOf(last.fields) \ KeysOf(FieldsOf(last.ctx)) # {}
  /\ Len(emitted.fields) = 2

\* C16: the fields a severity method passes to the embedded logger have
\* each key at most once, for every context and every field list.
C16_EmissionKeysUnique ==
  \A i \in DOMAIN sink : UniqueKeys(sink[i].fields)

\* ------------------------------------------------------- concurrency claims
\* The arrays a context stores and the arrays the locals of a goroutine
\* refer to.
StoredArrays == {ctxs[c].val.arr : c \in DOMAIN ctxs} \ {0}
Refs(pr) == {pr.fields.arr, pr.stored.arr, pr.existing.arr, pr.result.arr} \ {0}

\* A step writes only to arrays no context stores and no other goroutine
\* refers to.
NoSharedWrite ==
  \A a \in DOMAIN heap :
    heap'[a].data # heap[a].data
      => /\ a \notin StoredArrays
         /\ \A q \in Procs : procs'[q] = procs[q] => a \notin Refs(procs[q])

\* What the calls that returned and the contexts that exist hold is what a
\* sequential run gives.
AsSequential ==
  /\ \A p \in Procs : \A pr \in {procs[p]} :
       pr.pc = "done" =>
         /\ pr.prog = "FieldsFromContext"
              => Contents(heap, pr.existing) = FieldsOf(pr.ctx)
         /\ pr.prog = "MergeFields"
              => Contents(heap, pr.result) =
                   MergeFieldsVal(FieldsOf(pr.ctx), Contents(heap, pr.fields))
         /\ pr.prog = "WithFields"
              => FieldsOf(pr.rctx) =
                   MergeFieldsVal(FieldsOf(pr.ctx), Contents(heap, pr.fields))
  /\ \A c \in DOMAIN ctxs :
       FieldsOf(c) = MergeFieldsVal(FieldsOf(ctxs[c].parent), given[c])

\* C17: with goroutines that call FieldsFromContext, WithFields and
\* MergeFields on the contexts of one tree in any interleaving, no step
\* writes to an array a context stores or another goroutine refers to, no
\* step changes the fields of a context, and every call returns what it
\* returns in a sequential run.
C17_ConcurrentSafety ==
  /\ [][/\ NoSharedWrite
        /\ \A h \in Handles : FieldsOf(h)' = FieldsOf(h)]_vars
  /\ []AsSequential

\* C17's case: on the same context with fields, one goroutine is half way
\* through the copy of FieldsFromContext while another is in the second
\* output loop of the merge of WithFields, having written to its result.
C17_Witness ==
  \E p, q \in Procs :
    /\ p # q
    /\ procs[p].ctx = procs[q].ctx
    /\ procs[p].ctx \in DOMAIN ctxs
    /\ procs[p].prog = "FieldsFromContext"
    /\ procs[p].pc = "copy" /\ procs[p].i = MaxLen
    /\ procs[q].prog = "WithFields"
    /\ procs[q].pc = "out2" /\ procs[q].result.len > 0

====
